---- MODULE Spec2Model ----
(***************************************************************************)
(* Model of nn_serv: the Lambda Cloud command-line client                  *)
(* (scripts/lambda_cloud_api.py) and the Wan2 generation service           *)
(* (src/services/wan2.py, src/main.py).                                    *)
(*                                                                         *)
(* Python values are tagged records, so that truthiness, isinstance and    *)
(* the `or` chains of the source can be evaluated as Python evaluates      *)
(* them.  A Python str is a sequence of symbols: single characters where   *)
(* the code inspects characters ("=", "/", " "), opaque chunks elsewhere.  *)
(***************************************************************************)
EXTENDS Integers, Sequences, FiniteSets, TLC

----------------------------------------------------------------------------
(* Bounds of the model *)

MaxTags == 2     \* longest tag list of one layer
MaxNames == 2    \* longest filesystem-name list of one layer
MaxItemLen == 4  \* longest KEY=VALUE / FS_ID=PATH string, in symbols

----------------------------------------------------------------------------
(* Python values *)

None == [t |-> "none"]
PyStr(s) == [t |-> "str", v |-> s]
PyInt(n) == [t |-> "int", v |-> n]
PyBool(b) == [t |-> "bool", v |-> b]
PyList(l) == [t |-> "list", v |-> l]
PyDict(d) == [t |-> "dict", v |-> d]

\* bool(value): None, "", 0, False, [] and {} are falsy
Truthy(x) ==
  CASE x.t = "none" -> FALSE
    [] x.t = "str" -> x.v # <<>>
    [] x.t = "int" -> x.v # 0
    [] x.t = "bool" -> x.v
    [] x.t = "list" -> x.v # <<>>
    [] x.t = "dict" -> x.v # <<>>
    [] OTHER -> TRUE

\* a or b
Or(a, b) == IF Truthy(a) THEN a ELSE b

\* type(value).__name__
TypeName(x) == IF x.t = "none" THEN "NoneType" ELSE x.t

----------------------------------------------------------------------------
(* Results of helpers that may raise SystemExit *)

Ok(val) == [ok |-> TRUE, val |-> val]
Fail(kind, detail) == [ok |-> FALSE, kind |-> kind, detail |-> detail]

----------------------------------------------------------------------------
(* str methods *)

Whitespace == {" "}

\* item.find(c) + 1: position of the first c in s, 0 when there is none
RECURSIVE IndexFrom(_, _, _)
IndexFrom(s, c, i) ==
  IF i > Len(s) THEN 0
  ELSE IF s[i] = c THEN i
  ELSE IndexFrom(s, c, i + 1)

IndexOf(s, c) == IndexFrom(s, c, 1)

\* c in s
Contains(s, c) == \E i \in 1..Len(s) : s[i] = c

RECURSIVE LStrip(_)
LStrip(s) ==
  IF s # <<>> /\ Head(s) \in Whitespace THEN LStrip(Tail(s)) ELSE s

RECURSIVE RStrip(_)
RStrip(s) ==
  IF s # <<>> /\ s[Len(s)] \in Whitespace
  THEN RStrip(SubSeq(s, 1, Len(s) - 1)) ELSE s

\* s.strip()
Strip(s) == RStrip(LStrip(s))

\* s.startswith(c)
StartsWith(s, c) == s # <<>> /\ Head(s) = c

\* item.split("=", 1) for an item that contains "="
SplitFirst(item) ==
  LET i == IndexOf(item, "=")
  IN  <<SubSeq(item, 1, i - 1), SubSeq(item, i + 1, Len(item))>>

----------------------------------------------------------------------------
(* dict values: insertion-ordered sequences of [k, v] entries, unique keys *)

DictHas(d, k) == \E i \in 1..Len(d) : d[i].k = k

DictGet(d, k) == d[CHOOSE i \in 1..Len(d) : d[i].k = k].v

\* d[k] = v: an existing key keeps its position, a new key goes last
DictSet(d, k, v) ==
  IF DictHas(d, k)
  THEN [i \in 1..Len(d) |-> IF d[i].k = k THEN [k |-> k, v |-> v] ELSE d[i]]
  ELSE Append(d, [k |-> k, v |-> v])

\* str(value)
StrOf(x) ==
  CASE x.t = "str" -> x.v
    [] x.t = "int" -> <<ToString(x.v)>>
    [] x.t = "bool" -> IF x.v THEN <<"True">> ELSE <<"False">>
    [] x.t = "none" -> <<"None">>
    [] OTHER -> <<"<repr>">>

----------------------------------------------------------------------------
(* Option normalizers of scripts/lambda_cloud_api.py *)

RECURSIVE EnsureItems(_, _)
EnsureItems(items, result) ==
  IF items = <<>> THEN Ok(result)
  ELSE LET item == Head(items)
       IN  IF item.t = "none" THEN EnsureItems(Tail(items), result)
           ELSE IF item.t = "str"
                THEN EnsureItems(Tail(items), Append(result, item.v))
                ELSE Fail("InvalidOptionType", TypeName(item))

\* variant that rejects a null entry like any other non-string entry
_ensure_list_strict(value) ==
  IF value.t = "none" THEN Ok(<<>>)
  ELSE IF value.t = "str" THEN Ok(<<value.v>>)
  ELSE IF value.t = "list"
  THEN IF \E i \in 1..Len(value.v) : value.v[i].t # "str"
       THEN Fail("InvalidOptionType",
                 TypeName(value.v[CHOOSE i \in 1..Len(value.v) :
                                    /\ value.v[i].t # "str"
                                    /\ \A j \in 1..(i - 1) : value.v[j].t = "str"]))
       ELSE Ok([i \in 1..Len(value.v) |-> value.v[i].v])
  ELSE Fail("InvalidOptionType", TypeName(value))

_ensure_list(value) ==
  IF value.t = "none" THEN Ok(<<>>)
  ELSE IF value.t = "str" THEN Ok(<<value.v>>)
  ELSE IF value.t = "list" THEN EnsureItems(value.v, <<>>)
  ELSE Fail("InvalidOptionType", TypeName(value))

RECURSIVE DedupeFrom(_, _, _)
DedupeFrom(items, seen, result) ==
  IF items = <<>> THEN result
  ELSE IF Head(items) \notin seen
       THEN DedupeFrom(Tail(items), seen \cup {Head(items)},
                       Append(result, Head(items)))
       ELSE DedupeFrom(Tail(items), seen, result)

\* variant that forgets to record what it has seen
_dedupe_keep_all(items) == items

_dedupe_preserve_order(items) == DedupeFrom(items, {}, <<>>)

\* variant splitting on the last "=" (rsplit)
SplitLast(item) ==
  LET i == CHOOSE j \in 1..Len(item) :
             item[j] = "=" /\ \A m \in (j + 1)..Len(item) : item[m] # "="
  IN  <<SubSeq(item, 1, i - 1), SubSeq(item, i + 1, Len(item))>>

_parse_key_value_rsplit(item) ==
  IF ~Contains(item, "=") THEN Fail("InvalidFormat", "tag")
  ELSE LET kv == SplitLast(item)
       IN  Ok([key |-> kv[1], value |-> kv[2]])

_parse_key_value(item) ==
  IF ~Contains(item, "=") THEN Fail("InvalidFormat", "tag")
  ELSE LET kv == SplitFirst(item)
       IN  Ok([key |-> kv[1], value |-> kv[2]])

\* variant testing the mount point before trimming it
_parse_filesystem_mount_untrimmed(item) ==
  IF ~Contains(item, "=") THEN Fail("InvalidFormat", "filesystem mount")
  ELSE LET kv == SplitFirst(item)
       IN  IF ~StartsWith(kv[2], "/")
           THEN Fail("InvalidMountPath", Strip(kv[2]))
           ELSE Ok([file_system_id |-> Strip(kv[1]),
                    mount_point |-> Strip(kv[2])])

_parse_filesystem_mount(item) ==
  IF ~Contains(item, "=") THEN Fail("InvalidFormat", "filesystem mount")
  ELSE LET kv == SplitFirst(item)
           mount_point == Strip(kv[2])
       IN  IF ~StartsWith(mount_point, "/")
           THEN Fail("InvalidMountPath", mount_point)
           ELSE Ok([file_system_id |-> Strip(kv[1]),
                    mount_point |-> mount_point])

\* one entry of the config's filesystem_mounts
NormalizeMount(item) ==
  IF item.t = "str" THEN _parse_filesystem_mount(item.v)
  ELSE IF item.t = "dict"
  THEN IF DictHas(item.v, <<"file_system_id">>)
            /\ DictHas(item.v, <<"mount_point">>)
       THEN Ok([file_system_id |-> StrOf(DictGet(item.v, <<"file_system_id">>)),
                mount_point |-> StrOf(DictGet(item.v, <<"mount_point">>))])
       ELSE IF DictHas(item.v, <<"name">>)
                 /\ DictHas(item.v, <<"mount_point">>)
       THEN Ok([file_system_id |-> StrOf(DictGet(item.v, <<"name">>)),
                mount_point |-> StrOf(DictGet(item.v, <<"mount_point">>))])
       ELSE Fail("InvalidOptionType", "dict")
  ELSE Fail("InvalidOptionType", TypeName(item))

RECURSIVE NormalizeMounts(_, _)
NormalizeMounts(items, mounts) ==
  IF items = <<>> THEN Ok(mounts)
  ELSE LET r == NormalizeMount(Head(items))
       IN  IF r.ok THEN NormalizeMounts(Tail(items), Append(mounts, r.val))
           ELSE r

_normalize_config_mounts(value) ==
  IF value.t = "none" THEN Ok(<<>>)
  ELSE IF value.t = "list" THEN NormalizeMounts(value.v, <<>>)
  ELSE NormalizeMounts(<<value>>, <<>>)

\* [_parse_filesystem_mount(item) for item in items]
RECURSIVE ParseMounts(_, _)
ParseMounts(items, mounts) ==
  IF items = <<>> THEN Ok(mounts)
  ELSE LET r == _parse_filesystem_mount(Head(items))
       IN  IF r.ok THEN ParseMounts(Tail(items), Append(mounts, r.val))
           ELSE r

\* [_parse_key_value(tag) for tag in items]
RECURSIVE ParseTags(_, _)
ParseTags(items, tags) ==
  IF items = <<>> THEN Ok(tags)
  ELSE LET r == _parse_key_value(Head(items))
       IN  IF r.ok THEN ParseTags(Tail(items), Append(tags, r.val))
           ELSE r

\* one entry of a config tag list
NormalizeTag(item) ==
  IF item.t = "dict" /\ DictHas(item.v, <<"key">>) /\ DictHas(item.v, <<"value">>)
  THEN Ok([key |-> StrOf(DictGet(item.v, <<"key">>)),
           value |-> StrOf(DictGet(item.v, <<"value">>))])
  ELSE IF item.t = "str" THEN _parse_key_value(item.v)
  ELSE Fail("InvalidOptionType", TypeName(item))

RECURSIVE NormalizeTags(_, _)
NormalizeTags(items, normalized) ==
  IF items = <<>> THEN Ok(normalized)
  ELSE LET r == NormalizeTag(Head(items))
       IN  IF r.ok THEN NormalizeTags(Tail(items), Append(normalized, r.val))
           ELSE r

_normalize_config_tags(value) ==
  IF value.t = "none" THEN Ok(<<>>)
  ELSE IF value.t = "dict"
  THEN Ok([i \in 1..Len(value.v) |->
             [key |-> value.v[i].k, value |-> StrOf(value.v[i].v)]])
  ELSE IF value.t = "list" THEN NormalizeTags(value.v, <<>>)
  ELSE IF value.t = "str"
  THEN LET r == _parse_key_value(value.v)
       IN  IF r.ok THEN Ok(<<r.val>>) ELSE r
  ELSE Fail("InvalidOptionType", TypeName(value))

RECURSIVE MergeInto(_, _)
MergeInto(merged, tag_list) ==
  IF tag_list = <<>> THEN merged
  ELSE MergeInto(DictSet(merged, Head(tag_list).key, Head(tag_list).value),
                 Tail(tag_list))

TagsOf(merged) ==
  [i \in 1..Len(merged) |-> [key |-> merged[i].k, value |-> merged[i].v]]

\* variant in which the first layer to set a key wins (setdefault)
RECURSIVE MergeDefault(_, _)
MergeDefault(merged, tag_list) ==
  IF tag_list = <<>> THEN merged
  ELSE MergeDefault(IF DictHas(merged, Head(tag_list).key) THEN merged
                    ELSE DictSet(merged, Head(tag_list).key, Head(tag_list).value),
                    Tail(tag_list))

_merge_tags_first_wins(first, second) ==
  TagsOf(MergeDefault(MergeDefault(<<>>, first), second))

\* _merge_tags(config_tags, cli_tags)
_merge_tags(first, second) ==
  TagsOf(MergeInto(MergeInto(<<>>, first), second))

----------------------------------------------------------------------------
(* Files and configuration documents *)

Absent == [t |-> "absent"]

\* the dict holding the keys of rec (taken in the order of keys) that are set
RECURSIVE DictOf(_, _)
DictOf(rec, keys) ==
  IF keys = <<>> THEN <<>>
  ELSE IF rec[Head(keys)] = Absent THEN DictOf(rec, Tail(keys))
  ELSE <<[k |-> <<Head(keys)>>, v |-> rec[Head(keys)]]>> \o DictOf(rec, Tail(keys))

\* mapping.get(key)
Get(d, key) == IF DictHas(d, <<key>>) THEN DictGet(d, <<key>>) ELSE None

\* mapping.get(key, default)
GetDefault(d, key, default) ==
  IF DictHas(d, <<key>>) THEN DictGet(d, <<key>>) ELSE default

\* Path(path_str).is_absolute() and base_dir / candidate
_resolve_relative_path(path_str, base_dir) ==
  IF ~StartsWith(path_str, "/") /\ base_dir # None
  THEN base_dir.v \o <<"/">> \o path_str
  ELSE path_str

\* files: the readable files, path -> content
_read_file(path, files) ==
  IF path \in DOMAIN files THEN Ok(Strip(files[path]))
  ELSE Fail("FileUnreadable", path)

ConfigDir == <<"/", "configs">>

\* env.config_exists: a candidate path exists; env.document: what
\* yaml.safe_load returns for it
_load_launch_config(config_name, env) ==
  IF env.config_exists
  THEN LET data == Or(env.document, PyDict(<<>>))
       IN  IF data.t # "dict" THEN Fail("ConfigNotMapping", TypeName(data))
           ELSE Ok([data |-> data, config_dir |-> PyStr(ConfigDir)])
  ELSE Fail("ConfigNotFound", config_name)

----------------------------------------------------------------------------
(* cmd_launch_instance up to its client.request call *)

\* a list built by argparse's action="append": None or a list of str
ArgList(a) == IF a.t = "none" THEN <<>> ELSE [i \in 1..Len(a.v) |-> a.v[i].v]

\* variant that always sends every optional key
PutAlways(payload, cond, key, value) == payload @@ (key :> value)

\* if cond: payload[key] = value
PutIf(payload, cond, key, value) ==
  IF cond THEN payload @@ (key :> value) ELSE payload

\* the locals of cmd_launch_instance once every option is resolved
LaunchPayload(r) ==
  LET p0 == [region_name |-> r.region,
             instance_type_name |-> r.instance_type,
             ssh_key_names |-> r.ssh_keys]
      p1 == PutIf(p0, Truthy(r.name), "name", r.name)
      p2 == PutIf(p1, Truthy(r.hostname), "hostname", r.hostname)
      p3 == PutIf(p2, r.filesystem_names # <<>>, "file_system_names",
                  r.filesystem_names)
      p4 == PutIf(p3, r.config_mounts # <<>> \/ r.cli_mounts # <<>>,
                  "file_system_mounts", r.config_mounts \o r.cli_mounts)
      p5 == PutIf(p4, r.merged_tags # <<>>, "tags", r.merged_tags)
      p6 == PutIf(p5, Truthy(r.image), "image", r.image)
      p7 == PutIf(p6, r.firewall_rulesets # <<>>, "firewall_rulesets",
                  r.firewall_rulesets)
  IN  PutIf(p7, Truthy(r.user_data), "user_data", r.user_data)

\* variant in which the config's file is applied after --user-data-file
ResolveUserData_config_last(a, config_launch, config_dir, files) ==
  LET inline == IF Truthy(Get(config_launch, "user_data"))
                THEN PyStr(StrOf(Get(config_launch, "user_data")))
                ELSE None
      cfgRead == IF Truthy(Get(config_launch, "user_data_file"))
                 THEN _read_file(_resolve_relative_path(
                                   Get(config_launch, "user_data_file").v,
                                   config_dir), files)
                 ELSE Ok(<<>>)
      cliRead == IF Truthy(a.user_data_file)
                 THEN _read_file(a.user_data_file.v, files)
                 ELSE Ok(<<>>)
  IN  IF ~cfgRead.ok THEN cfgRead
      ELSE IF ~cliRead.ok THEN cliRead
      ELSE IF Truthy(Get(config_launch, "user_data_file"))
      THEN Ok(PyStr(cfgRead.val))
      ELSE IF Truthy(a.user_data_file) THEN Ok(PyStr(cliRead.val))
      ELSE Ok(inline)

\* user_data: inline string, then the config's file, then --user-data-file
ResolveUserData(a, config_launch, config_dir, files) ==
  LET inline == IF Truthy(Get(config_launch, "user_data"))
                THEN PyStr(StrOf(Get(config_launch, "user_data")))
                ELSE None
      cfgRead == IF Truthy(Get(config_launch, "user_data_file"))
                 THEN _read_file(_resolve_relative_path(
                                   Get(config_launch, "user_data_file").v,
                                   config_dir), files)
                 ELSE Ok(<<>>)
      cliRead == IF Truthy(a.user_data_file)
                 THEN _read_file(a.user_data_file.v, files)
                 ELSE Ok(<<>>)
  IN  IF ~cfgRead.ok THEN cfgRead
      ELSE IF ~cliRead.ok THEN cliRead
      ELSE IF Truthy(a.user_data_file) THEN Ok(PyStr(cliRead.val))
      ELSE IF Truthy(Get(config_launch, "user_data_file"))
      THEN Ok(PyStr(cfgRead.val))
      ELSE Ok(inline)

\* lines 360-407: the optional options, in the order the code resolves them
LaunchOptional(a, c, config_dir, files, required) ==
  LET fsCfg == _ensure_list(Or(Or(Or(Get(c, "filesystem_names"),
                                     Get(c, "file_system_names")),
                                  Get(c, "filesystem")),
                               Get(c, "filesystems")))
      mountsCfg == _normalize_config_mounts(
                     Or(Get(c, "filesystem_mounts"), Get(c, "file_system_mounts")))
      mountsCli == ParseMounts(ArgList(a.filesystem_mounts), <<>>)
      tagsCfg == _normalize_config_tags(Get(c, "tags"))
      tagsCli == ParseTags(ArgList(a.tag), <<>>)
      firewall == _ensure_list(Get(c, "firewall_rulesets"))
      userData == ResolveUserData(a, c, config_dir, files)
  IN  IF ~fsCfg.ok THEN fsCfg
      ELSE IF ~mountsCfg.ok THEN mountsCfg
      ELSE IF ~mountsCli.ok THEN mountsCli
      ELSE IF ~tagsCfg.ok THEN tagsCfg
      ELSE IF ~tagsCli.ok THEN tagsCli
      ELSE IF ~firewall.ok THEN firewall
      ELSE IF ~userData.ok THEN userData
      ELSE Ok(required @@
              [name |-> Or(a.name, Get(c, "name")),
               hostname |-> Or(a.hostname, Get(c, "hostname")),
               filesystem_names |->
                 _dedupe_preserve_order(fsCfg.val \o ArgList(a.filesystems)),
               config_mounts |-> mountsCfg.val,
               cli_mounts |-> mountsCli.val,
               config_tags |-> tagsCfg.val,
               cli_tags |-> tagsCli.val,
               merged_tags |-> _merge_tags(tagsCfg.val, tagsCli.val),
               image |-> Get(c, "image"),
               firewall_rulesets |-> firewall.val,
               user_data |-> userData.val])

\* variant that sends the request without testing the SSH key list
LaunchRequired_no_ssh_check(a, c) ==
  LET region == Or(Or(a.region, Get(c, "region")), Get(c, "region_name"))
      instance_type == Or(Or(a.instance_type, Get(c, "instance_type")),
                          Get(c, "instance_type_name"))
      config_ssh == _ensure_list(Or(Or(Get(c, "ssh_keys"), Get(c, "ssh_key")),
                                    Get(c, "ssh_key_names")))
  IN  IF ~Truthy(region) THEN Fail("MissingRequiredOption", "region")
      ELSE IF ~Truthy(instance_type)
      THEN Fail("MissingRequiredOption", "instance_type")
      ELSE IF ~config_ssh.ok THEN config_ssh
      ELSE Ok([region |-> region, instance_type |-> instance_type,
               ssh_keys |-> IF ArgList(a.ssh_keys) # <<>>
                            THEN ArgList(a.ssh_keys) ELSE config_ssh.val])

\* variant in which the file config takes precedence over the flags
LaunchRequired_config_first(a, c) ==
  LET region == Or(Or(Get(c, "region"), Get(c, "region_name")), a.region)
      instance_type == Or(Or(Get(c, "instance_type"),
                             Get(c, "instance_type_name")), a.instance_type)
      config_ssh == _ensure_list(Or(Or(Get(c, "ssh_keys"), Get(c, "ssh_key")),
                                    Get(c, "ssh_key_names")))
  IN  IF ~Truthy(region) THEN Fail("MissingRequiredOption", "region")
      ELSE IF ~Truthy(instance_type)
      THEN Fail("MissingRequiredOption", "instance_type")
      ELSE IF ~config_ssh.ok THEN config_ssh
      ELSE LET ssh_keys == IF config_ssh.val # <<>> THEN config_ssh.val
                           ELSE ArgList(a.ssh_keys)
           IN  IF ssh_keys = <<>>
               THEN Fail("MissingRequiredOption", "ssh_keys")
               ELSE Ok([region |-> region, instance_type |-> instance_type,
                        ssh_keys |-> ssh_keys])

\* lines 322-350: region, instance type and SSH keys
LaunchRequired(a, c) ==
  LET region == Or(Or(a.region, Get(c, "region")), Get(c, "region_name"))
      instance_type == Or(Or(a.instance_type, Get(c, "instance_type")),
                          Get(c, "instance_type_name"))
      config_ssh == _ensure_list(Or(Or(Get(c, "ssh_keys"), Get(c, "ssh_key")),
                                    Get(c, "ssh_key_names")))
  IN  IF ~Truthy(region) THEN Fail("MissingRequiredOption", "region")
      ELSE IF ~Truthy(instance_type)
      THEN Fail("MissingRequiredOption", "instance_type")
      ELSE IF ~config_ssh.ok THEN config_ssh
      ELSE LET ssh_keys == IF ArgList(a.ssh_keys) # <<>>
                           THEN ArgList(a.ssh_keys) ELSE config_ssh.val
           IN  IF ssh_keys = <<>>
               THEN Fail("MissingRequiredOption", "ssh_keys")
               ELSE Ok([region |-> region, instance_type |-> instance_type,
                        ssh_keys |-> ssh_keys])

\* the resolved options of a launch, or the SystemExit that ends it
cmd_launch_instance(a, env) ==
  LET loaded == IF Truthy(a.config) THEN _load_launch_config(a.config.v, env)
                ELSE Ok([data |-> PyDict(<<>>), config_dir |-> None])
  IN  IF ~loaded.ok THEN loaded
      ELSE LET config_data == loaded.val.data
               config_launch == GetDefault(config_data.v, "launch", config_data)
           IN  IF config_launch.t # "dict"
               THEN Fail("AttributeError", TypeName(config_launch))
               ELSE LET required == LaunchRequired(a, config_launch.v)
                    IN  IF ~required.ok THEN required
                        ELSE LaunchOptional(a, config_launch.v,
                                            loaded.val.config_dir, env.files,
                                            required.val)

----------------------------------------------------------------------------
(* cmd_add_ssh_key up to its client.request call *)

cmd_add_ssh_key(a, env) ==
  IF a.generate /\ Truthy(a.public_key)
  THEN Fail("GenerateWithPublicKey", "--generate")
  ELSE IF a.generate
  THEN Ok([payload |-> [name |-> a.name], params |-> "generate=true"])
  ELSE LET public_key == IF Truthy(a.public_key)
                         THEN _read_file(a.public_key.v, env.files)
                         ELSE Ok(env.stdin)
       IN  IF ~public_key.ok THEN public_key
           ELSE IF Strip(public_key.val) = <<>>
           THEN Fail("EmptyPublicKey", "public_key")
           ELSE Ok([payload |-> [name |-> a.name,
                                 public_key |-> PyStr(Strip(public_key.val))],
                    params |-> ""])

----------------------------------------------------------------------------
(* Wan2 generation: src/services/wan2.py *)

SlugMax == 48

\* Wan2LaunchConfig as build_wan2_generator fills it from the config's
\* generation section
build_wan2_generator(generation_section) ==
  [task |-> GetDefault(generation_section, "task", PyStr(<<"t2v-A14B">>)),
   size |-> GetDefault(generation_section, "size", PyStr(<<"1280*720">>)),
   frame_num |-> Get(generation_section, "frame_num"),
   offload_model |-> GetDefault(generation_section, "offload_model", PyBool(TRUE)),
   convert_model_dtype |->
     GetDefault(generation_section, "convert_model_dtype", PyBool(TRUE)),
   additional_args |-> Get(generation_section, "extra_args")]

\* prompt.split(): the maximal runs of non-whitespace symbols
RECURSIVE SplitWords(_, _, _)
SplitWords(s, word, words) ==
  IF s = <<>> THEN IF word = <<>> THEN words ELSE Append(words, word)
  ELSE IF Head(s) \in Whitespace
       THEN SplitWords(Tail(s), <<>>,
                       IF word = <<>> THEN words ELSE Append(words, word))
       ELSE SplitWords(Tail(s), Append(word, Head(s)), words)

\* sep.join(words)
RECURSIVE Join(_, _)
Join(words, sep) ==
  IF words = <<>> THEN <<>>
  ELSE IF Len(words) = 1 THEN words[1]
  ELSE words[1] \o <<sep>> \o Join(Tail(words), sep)

\* s.replace(old, new) for single symbols
Replace(s, old, new) == [i \in 1..Len(s) |-> IF s[i] = old THEN new ELSE s[i]]

\* s[:n]
Truncate(s, n) == SubSeq(s, 1, IF Len(s) < n THEN Len(s) ELSE n)

\* variant that removes every "/" instead of replacing it
Slug_strip_slash(prompt) ==
  LET cut == Truncate(SelectSeq(Join(SplitWords(prompt, <<>>, <<>>), "_"),
                                LAMBDA ch : ch # "/"),
                      SlugMax)
  IN  IF cut = <<>> THEN <<"wan2">> ELSE cut

Slug(prompt) ==
  LET cut == Truncate(Replace(Join(SplitWords(prompt, <<>>, <<>>), "_"), "/", "_"),
                      SlugMax)
  IN  IF cut = <<>> THEN <<"wan2">> ELSE cut

OutputDir == <<"/", "outputs">>

\* hex8: uuid.uuid4().hex[:8]
_build_output_path(prompt, hex8) ==
  OutputDir \o <<"/">> \o Slug(prompt) \o <<"_">> \o hex8 \o <<".mp4">>

PythonExecutable == PyStr(<<"python">>)
ModelRoot == PyStr(<<"/", "models", "/", "wan2">>)
GenerateScript == PyStr(ModelRoot.v \o <<"/", "generate.py">>)

Flag(name) == PyStr(<<name>>)

\* command.extend(value): the elements of a list, the characters of a str
Extended(value) ==
  IF value.t = "list" THEN value.v
  ELSE IF value.t = "str" THEN [i \in 1..Len(value.v) |-> PyStr(<<value.v[i]>>)]
  ELSE <<>>

\* variant that appends --base_seed only for a truthy seed
_build_command_truthy_seed(cfg, prompt, save_file, seed, num_frames, size) ==
  LET frame_value == Or(num_frames, cfg.frame_num)
      size_value == Or(size, cfg.size)
  IN  <<PythonExecutable, GenerateScript,
        Flag("--task"), cfg.task, Flag("--ckpt_dir"), ModelRoot,
        Flag("--prompt"), prompt, Flag("--save_file"), save_file>>
      \o (IF frame_value # None
          THEN <<Flag("--frame_num"), PyStr(StrOf(frame_value))>> ELSE <<>>)
      \o (IF Truthy(size_value) THEN <<Flag("--size"), size_value>> ELSE <<>>)
      \o (IF Truthy(cfg.offload_model)
          THEN <<Flag("--offload_model"), Flag("True")>> ELSE <<>>)
      \o (IF Truthy(cfg.convert_model_dtype)
          THEN <<Flag("--convert_model_dtype")>> ELSE <<>>)
      \o (IF Truthy(seed)
          THEN <<Flag("--base_seed"), PyStr(StrOf(seed))>> ELSE <<>>)
      \o (IF Truthy(cfg.additional_args) THEN Extended(cfg.additional_args)
          ELSE <<>>)

_build_command(cfg, prompt, save_file, seed, num_frames, size) ==
  LET frame_value == Or(num_frames, cfg.frame_num)
      size_value == Or(size, cfg.size)
  IN  <<PythonExecutable, GenerateScript,
        Flag("--task"), cfg.task, Flag("--ckpt_dir"), ModelRoot,
        Flag("--prompt"), prompt, Flag("--save_file"), save_file>>
      \o (IF frame_value # None
          THEN <<Flag("--frame_num"), PyStr(StrOf(frame_value))>> ELSE <<>>)
      \o (IF Truthy(size_value) THEN <<Flag("--size"), size_value>> ELSE <<>>)
      \o (IF Truthy(cfg.offload_model)
          THEN <<Flag("--offload_model"), Flag("True")>> ELSE <<>>)
      \o (IF Truthy(cfg.convert_model_dtype)
          THEN <<Flag("--convert_model_dtype")>> ELSE <<>>)
      \o (IF seed # None
          THEN <<Flag("--base_seed"), PyStr(StrOf(seed))>> ELSE <<>>)
      \o (IF Truthy(cfg.additional_args) THEN Extended(cfg.additional_args)
          ELSE <<>>)

----------------------------------------------------------------------------
(* Inputs of one invocation *)

S(chunk) == PyStr(<<chunk>>)

ApiKey == S("secret")

CfgKeys ==
  <<"region", "region_name", "instance_type", "instance_type_name",
    "ssh_keys", "ssh_key", "ssh_key_names", "name", "hostname",
    "filesystem_names", "file_system_names", "filesystem", "filesystems",
    "filesystem_mounts", "file_system_mounts", "tags", "image",
    "firewall_rulesets", "user_data", "user_data_file">>

CfgBase == [k \in {CfgKeys[i] : i \in 1..Len(CfgKeys)} |-> Absent]

Document(cfg) == PyDict(DictOf(cfg, CfgKeys))

ArgsBase ==
  [api_key |-> ApiKey, config |-> S("wan2-instance"), region |-> None,
   instance_type |-> None, ssh_keys |-> None, name |-> None,
   hostname |-> None, tag |-> None, user_data_file |-> None,
   filesystems |-> None, filesystem_mounts |-> None]

\* flags that satisfy the three required options
ArgsValid ==
  [ArgsBase EXCEPT !.region = S("us-west-1"), !.instance_type = S("gpu_1x_a10"),
                   !.ssh_keys = PyList(<<S("k1")>>)]

CliUserDataPath == <<"ud.sh">>
CfgUserDataPath == <<"init.sh">>
PublicKeyPath == <<"id.pub">>

NoFiles == [path \in {} |-> <<>>]

EnvBase ==
  [config_exists |-> TRUE, document |-> Document(CfgBase), files |-> NoFiles,
   stdin |-> <<>>]

\* the required options and the scalar options, from every layer
LaunchScalarInputs ==
  {[args |-> [ArgsBase EXCEPT !.region = ar, !.instance_type = at,
                              !.ssh_keys = ak, !.name = an, !.hostname = ah],
    env |-> [EnvBase EXCEPT !.document =
               Document([CfgBase EXCEPT !["region"] = cr, !["region_name"] = crn,
                                        !["instance_type"] = ct,
                                        !["instance_type_name"] = ctn,
                                        !["ssh_keys"] = ck, !["name"] = cn,
                                        !["hostname"] = ch])]] :
     ar \in {None, PyStr(<<>>), S("us-west-1")},
     cr \in {Absent, S("us-east-1")},
     crn \in {Absent, S("us-south-1")},
     at \in {None, S("gpu_1x_a10")},
     ct \in {Absent, S("gpu_8x_h100")},
     ctn \in {Absent, S("gpu_1x_a100")},
     ak \in {None, PyList(<<S("k1")>>)},
     ck \in {Absent, PyList(<<S("k2"), S("k3")>>), S("k2"), PyInt(5),
             PyList(<<None>>)},
     an \in {None, S("cli-name")},
     cn \in {Absent, S("cfg-name")},
     ah \in {None, S("cli-host")},
     ch \in {Absent, S("cfg-host")}}

Item(symbols) == PyStr(symbols)

MountDict(idKey, id, mount_point) ==
  PyDict(<<[k |-> <<idKey>>, v |-> id], [k |-> <<"mount_point">>, v |-> mount_point]>>)

\* the collection options, the required options coming from the flags
LaunchCollectionInputs ==
  {[args |-> [ArgsValid EXCEPT !.filesystems = af, !.filesystem_mounts = am,
                               !.tag = atg],
    env |-> [EnvBase EXCEPT !.document =
               Document([CfgBase EXCEPT !["filesystem_names"] = cf,
                                        !["filesystem_mounts"] = cm,
                                        !["tags"] = ctg, !["image"] = ci,
                                        !["firewall_rulesets"] = cw])]] :
     af \in {None, PyList(<<S("a")>>), PyList(<<S("b"), S("c"), S("b")>>)},
     cf \in {Absent, PyList(<<S("a"), S("b")>>), S("a"), PyInt(3)},
     am \in {None, PyList(<<Item(<<"fs1", "=", "/", "data">>)>>),
             PyList(<<Item(<<"fs1", "=", "data">>)>>),
             PyList(<<Item(<<"fs1">>)>>)},
     cm \in {Absent, PyList(<<Item(<<"fs2", " ", "=", " ", "/", "mnt">>)>>),
             PyList(<<MountDict("file_system_id", S("fs3"), PyStr(<<"/", "x">>))>>),
             PyList(<<MountDict("name", S("fs1"), S("relative"))>>),
             PyInt(5)},
     atg \in {None, PyList(<<Item(<<"env", "=", "prod">>)>>),
              PyList(<<Item(<<"env">>)>>)},
     ctg \in {Absent,
              PyDict(<<[k |-> <<"env">>, v |-> S("dev")],
                       [k |-> <<"team">>, v |-> PyInt(7)]>>),
              PyList(<<Item(<<"a", "=", "b", "=", "c">>)>>),
              PyInt(1)},
     ci \in {Absent, S("ubuntu")},
     cw \in {Absent, PyList(<<S("ruleset-1")>>)}}

UserDataFiles(cfgFile, cliFile) ==
  (IF cfgFile = None THEN NoFiles
   ELSE (ConfigDir \o <<"/">> \o CfgUserDataPath) :> cfgFile.v)
  @@ (IF cliFile = None THEN NoFiles ELSE CliUserDataPath :> cliFile.v)

\* the three sources of user data
LaunchUserDataInputs ==
  {[args |-> [ArgsValid EXCEPT !.user_data_file = au],
    env |-> [EnvBase EXCEPT !.document =
                              Document([CfgBase EXCEPT !["user_data"] = cu,
                                                       !["user_data_file"] = cuf]),
                            !.files = UserDataFiles(cfgFile, cliFile)]] :
     au \in {None, PyStr(CliUserDataPath)},
     cu \in {Absent, S("#inline")},
     cuf \in {Absent, PyStr(CfgUserDataPath)},
     cfgFile \in {None, PyStr(<<" ", "#cfg", " ">>)},
     cliFile \in {None, PyStr(<<" ">>), PyStr(<<"#cli">>)}}

\* what the config file can be: missing, nested under "launch", not a mapping
LaunchDocumentInputs ==
  {[args |-> [ArgsValid EXCEPT !.config = ac, !.api_key = key],
    env |-> [EnvBase EXCEPT !.config_exists = ex, !.document = doc]] :
     ac \in {None, S("wan2-instance")},
     key \in {None, ApiKey},
     ex \in BOOLEAN,
     doc \in {None, PyList(<<>>), PyList(<<S("a")>>), PyInt(0), PyInt(7),
              PyBool(FALSE), S("text"), PyDict(<<>>),
              PyDict(<<[k |-> <<"launch">>,
                        v |-> Document([CfgBase EXCEPT !["name"] = S("nested")])]>>),
              PyDict(<<[k |-> <<"launch">>, v |-> S("text")]>>)}}

LaunchInputs ==
  LaunchScalarInputs \cup LaunchCollectionInputs \cup LaunchUserDataInputs
    \cup LaunchDocumentInputs

AddSshKeyInputs ==
  {[args |-> [api_key |-> ApiKey, name |-> S("laptop"), generate |-> g,
              public_key |-> pk],
    env |-> [EnvBase EXCEPT !.files = IF f = None THEN NoFiles
                                      ELSE PublicKeyPath :> f.v,
                            !.stdin = stdin]] :
     g \in BOOLEAN,
     pk \in {None, PyStr(PublicKeyPath)},
     f \in {None, PyStr(<<" ">>), PyStr(<<" ", "ssh-ed25519", " ">>)},
     stdin \in {<<>>, <<" ">>, <<"ssh-rsa", " ">>}}

\* the commands that only send one request
SimpleCommands ==
  {"list-instance-types", "list-instances", "list-filesystems", "get-instance",
   "terminate-instances", "list-ssh-keys", "delete-ssh-key"}

SimpleInputs ==
  {[args |-> [api_key |-> key, id |-> S("i-123abc")], env |-> EnvBase] :
     key \in {None, PyStr(<<>>), ApiKey}}

GenKeys == <<"task", "size", "frame_num", "offload_model",
             "convert_model_dtype", "extra_args">>

\* the generation section of the model config and one request
GenerateInputs ==
  {[args |-> [prompt |-> prompt, negative_prompt |-> None, seed |-> seed,
              num_frames |-> nf, size |-> size],
    env |-> [generation_section |-> DictOf(g, GenKeys),
             launch_config |-> build_wan2_generator(DictOf(g, GenKeys))]] :
     prompt \in {PyStr(<<"a", " ", "/", "b">>), PyStr(<<" ">>)},
     seed \in {None, PyInt(0), PyInt(42)},
     nf \in {None, PyInt(16)},
     size \in {None, PyStr(<<>>), S("832*480")},
     g \in [task : {Absent, S("ti2v-5B"), None},
            size : {Absent, S("480*832"), None, PyStr(<<>>)},
            frame_num : {Absent, PyInt(81), PyInt(0)},
            offload_model : {Absent, PyBool(FALSE), None},
            convert_model_dtype : {Absent, PyBool(FALSE), None},
            extra_args : {Absent, PyList(<<S("--sample_steps"), S("30")>>)}]}

HexSuffixes == {<<"0", "1", "2", "3", "a", "b", "c", "d">>,
                <<"f", "e", "9", "8", "7", "6", "5", "4">>}

----------------------------------------------------------------------------
(* State *)

VARIABLES
  pc,        \* "start", "request", "subprocess" or "done"
  command,   \* the CLI subcommand, or "generate" for the HTTP service
  args,      \* argparse's Namespace / the arguments of generate()
  env,       \* what the invocation reads: config document, files, stdin
  resolved,  \* the handler's locals once its options are resolved
  pending,   \* the external call the handler is about to make
  calls,     \* the external calls made so far
  outcome    \* how the invocation ended

vars == <<pc, command, args, env, resolved, pending, calls, outcome>>

Error(kind, detail) == [status |-> "error", kind |-> kind, detail |-> detail]

Init ==
  /\ pc = "start"
  /\ \E c \in {"launch-instance", "add-ssh-key", "generate"} \cup SimpleCommands :
       /\ command = c
       /\ \E in \in (CASE c = "launch-instance" -> LaunchInputs
                       [] c = "add-ssh-key" -> AddSshKeyInputs
                       [] c = "generate" -> GenerateInputs
                       [] OTHER -> SimpleInputs) :
            /\ args = in.args
            /\ env = in.env
  /\ resolved = None
  /\ pending = None
  /\ calls = <<>>
  /\ outcome = None

----------------------------------------------------------------------------
(* The command-line client: main() and the command handlers *)

HttpCall(method, path, payload, params) ==
  [kind |-> "http", method |-> method, path |-> path, payload |-> payload,
   params |-> params]

\* the handler has validated its options and reaches client.request
Dispatch(call) ==
  /\ pc' = "request"
  /\ pending' = call
  /\ UNCHANGED <<command, args, env, calls, outcome>>

\* variant of a handler that validates only after it has sent its request
ExitAfterRequest(failure) ==
  /\ pc' = "done"
  /\ outcome' = Error(failure.kind, failure.detail)
  /\ calls' = Append(calls, HttpCall("POST", "/", None, ""))
  /\ UNCHANGED <<command, args, env, resolved, pending>>

\* the invocation ends before any external call
Exit(failure) ==
  /\ pc' = "done"
  /\ outcome' = Error(failure.kind, failure.detail)
  /\ UNCHANGED <<command, args, env, resolved, pending, calls>>

IsCli == command \in {"launch-instance", "add-ssh-key"} \cup SimpleCommands

\* LambdaApiClient.__init__ rejects an empty API key
ClientInit ==
  /\ pc = "start"
  /\ IsCli
  /\ ~Truthy(args.api_key)
  /\ Exit(Fail("ValueError", "api_key"))

Handler(name) == pc = "start" /\ command = name /\ Truthy(args.api_key)

LaunchInstance ==
  /\ Handler("launch-instance")
  /\ LET r == cmd_launch_instance(args, env)
     IN  IF r.ok
         THEN /\ resolved' = r.val
              /\ Dispatch(HttpCall("POST", "/api/v1/instance-operations/launch",
                                   LaunchPayload(r.val), ""))
         ELSE Exit(r)

AddSshKey ==
  /\ Handler("add-ssh-key")
  /\ LET r == cmd_add_ssh_key(args, env)
     IN  IF r.ok
         THEN /\ resolved' = r.val
              /\ Dispatch(HttpCall("POST", "/api/v1/ssh-keys", r.val.payload,
                                   r.val.params))
         ELSE Exit(r)

ListInstanceTypes ==
  /\ Handler("list-instance-types")
  /\ UNCHANGED resolved
  /\ Dispatch(HttpCall("GET", "/api/v1/instance-types", None, ""))

ListInstances ==
  /\ Handler("list-instances")
  /\ UNCHANGED resolved
  /\ Dispatch(HttpCall("GET", "/api/v1/instances", None, ""))

ListFilesystems ==
  /\ Handler("list-filesystems")
  /\ UNCHANGED resolved
  /\ Dispatch(HttpCall("GET", "/api/v1/file-systems", None, ""))

GetInstance ==
  /\ Handler("get-instance")
  /\ UNCHANGED resolved
  /\ Dispatch(HttpCall("GET", "/api/v1/instances/{id}", None, ""))

TerminateInstances ==
  /\ Handler("terminate-instances")
  /\ UNCHANGED resolved
  /\ Dispatch(HttpCall("POST", "/api/v1/instance-operations/terminate",
                       [instance_ids |-> <<args.id>>], ""))

ListSshKeys ==
  /\ Handler("list-ssh-keys")
  /\ UNCHANGED resolved
  /\ Dispatch(HttpCall("GET", "/api/v1/ssh-keys", None, ""))

DeleteSshKey ==
  /\ Handler("delete-ssh-key")
  /\ UNCHANGED resolved
  /\ Dispatch(HttpCall("DELETE", "/api/v1/ssh-keys/{id}", None, ""))

\* what urlopen can do with the request
Responses == {"ok", "empty", "http_error", "url_error", "bad_json"}

\* the bodies an error answer of the API is drawn from
EnvelopeFull == <<"{\"error\": {\"code\": \"c1\", \"message\": \"m1\"}}">>
EnvelopeNoCode == <<"{\"error\": {\"message\": \"m1\"}}">>
EnvelopeNoMessage == <<"{\"error\": {\"code\": \"c1\"}}">>
EnvelopeErrorText == <<"{\"error\": \"boom\"}">>
EnvelopeErrorNull == <<"{\"error\": null}">>

ErrorBodies ==
  {<<>>, <<" ">>, <<" ", "Bad Gateway", " ">>,
   EnvelopeFull, EnvelopeNoCode, EnvelopeNoMessage, <<"{}">>,
   EnvelopeErrorText, EnvelopeErrorNull, <<"[]">>, <<"null">>, <<"5">>}

Entry(key, value) == [k |-> <<key>>, v |-> value]

\* json.loads(text) for the texts of ErrorBodies
JsonLoads(text) ==
  CASE text = EnvelopeFull ->
         Ok(PyDict(<<Entry("error", PyDict(<<Entry("code", S("c1")),
                                             Entry("message", S("m1"))>>))>>))
    [] text = EnvelopeNoCode ->
         Ok(PyDict(<<Entry("error", PyDict(<<Entry("message", S("m1"))>>))>>))
    [] text = EnvelopeNoMessage ->
         Ok(PyDict(<<Entry("error", PyDict(<<Entry("code", S("c1"))>>))>>))
    [] text = <<"{}">> -> Ok(PyDict(<<>>))
    [] text = EnvelopeErrorText -> Ok(PyDict(<<Entry("error", S("boom"))>>))
    [] text = EnvelopeErrorNull -> Ok(PyDict(<<Entry("error", None)>>))
    [] text = <<"[]">> -> Ok(PyList(<<>>))
    [] text = <<"null">> -> Ok(None)
    [] text = <<"5">> -> Ok(PyInt(5))
    [] OTHER -> Fail("JSONDecodeError", "json")

\* the message is a Python value: the caller formats it into its exit text
_extract_error_message(raw_payload) ==
  IF raw_payload = <<>> THEN Ok(S("<no error message returned>"))
  ELSE LET loaded == JsonLoads(raw_payload)
       IN  IF ~loaded.ok
           THEN Ok(Or(PyStr(Strip(raw_payload)), S("<unparseable error response>")))
           ELSE IF loaded.val.t # "dict"
           THEN Fail("AttributeError", TypeName(loaded.val))
           ELSE LET error_obj == GetDefault(loaded.val.v, "error", PyDict(<<>>))
                IN  IF error_obj.t # "dict"
                    THEN Fail("AttributeError", TypeName(error_obj))
                    ELSE LET code == Get(error_obj.v, "code")
                             message == GetDefault(error_obj.v, "message",
                                                   S("<no error message>"))
                         IN  IF Truthy(code)
                             THEN Ok(PyStr(StrOf(code) \o <<": ">> \o StrOf(message)))
                             ELSE Ok(message)

\* exc.code of the HTTPError
ErrorStatus == "400"

\* the except clause for HTTPError: SystemExit with the extracted message,
\* or the exception _extract_error_message raised
HttpErrorOutcome(error_payload) ==
  LET message == _extract_error_message(error_payload)
  IN  IF message.ok
      THEN [status |-> "error", kind |-> "DestinationRejected",
            detail |-> "HTTPError", body |-> error_payload,
            message |-> <<"API request failed (", ErrorStatus, "): ">>
                        \o StrOf(message.val)]
      ELSE [status |-> "error", kind |-> message.kind,
            detail |-> message.detail, body |-> error_payload]

\* variant that sends the request again after a failure
Request_retry ==
  /\ pc = "request"
  /\ calls' = Append(calls, pending)
  /\ \E response \in Responses :
       IF response \in {"http_error", "url_error", "bad_json"}
       THEN pc' = "request" /\ outcome' = outcome
       ELSE pc' = "done" /\ outcome' = [status |-> "ok", response |-> response]
  /\ UNCHANGED <<command, args, env, resolved, pending>>

\* LambdaApiClient.request, and the handler's summary of a good response
Request ==
  /\ pc = "request"
  /\ calls' = Append(calls, pending)
  /\ \E response \in Responses :
       CASE response = "http_error" ->
              \E error_payload \in ErrorBodies :
                outcome' = HttpErrorOutcome(error_payload)
         [] response = "url_error" ->
              outcome' = Error("DestinationUnreachable", "URLError")
         [] response = "bad_json" ->
              outcome' = Error("MalformedResponse", "JSONDecodeError")
         [] OTHER -> outcome' = [status |-> "ok", response |-> response]
  /\ pc' = "done"
  /\ UNCHANGED <<command, args, env, resolved, pending>>

----------------------------------------------------------------------------
(* The generation service: Wan2Generator.generate *)

\* generate() up to subprocess.run
Generate ==
  /\ pc = "start"
  /\ command = "generate"
  /\ \E hex8 \in HexSuffixes :
       LET save_file == PyStr(_build_output_path(args.prompt.v, hex8))
           cmd == _build_command(env.launch_config, args.prompt, save_file,
                                 args.seed, args.num_frames, args.size)
       IN  /\ resolved' = [save_file |-> save_file, hex8 |-> hex8]
           /\ pending' = [kind |-> "subprocess", cmd |-> cmd]
  /\ pc' = "subprocess"
  /\ UNCHANGED <<command, args, env, calls, outcome>>

\* how the child process can end
ProcessResults == {"exit0", "nonzero", "oserror"}

\* what the child process wrote on a stream
ChildOutputs == {<<>>, <<" ", "saved", " ">>}

\* the symbols shlex.quote does not take as safe: whitespace and "*"
UnsafeSymbols == Whitespace \cup {"1280*720", "832*480", "480*832"}

\* shlex.quote(token)
ShlexQuote(token) ==
  IF token = <<>> THEN <<"''">>
  ELSE IF \E i \in 1..Len(token) : token[i] \in UnsafeSymbols
       THEN <<"'">> \o token \o <<"'">>
  ELSE token

\* shlex.join(cmd)
RECURSIVE ShlexJoin(_)
ShlexJoin(cmd) ==
  IF cmd = <<>> THEN <<>>
  ELSE IF Len(cmd) = 1 THEN ShlexQuote(cmd[1].v)
  ELSE ShlexQuote(cmd[1].v) \o <<" ">> \o ShlexJoin(Tail(cmd))

\* Path(p).name: what follows the last "/"
RECURSIVE PathName(_)
PathName(p) ==
  IF \E i \in 1..Len(p) : p[i] = "/" THEN PathName(Tail(p)) ELSE p

ApiPrefix == <<"/api">>

\* the HTTP answer of generate_video
HttpResponse(status_code, detail) == [status_code |-> status_code, detail |-> detail]

\* an exception that generate_video does not catch leaves the handler; the
\* client gets the server's bare 500 answer, without a detail
Uncaught(kind, detail) ==
  [status |-> "error", kind |-> kind, detail |-> detail,
   http |-> HttpResponse(500, None)]

\* subprocess.run(cmd, check=True) and the response built from it
SubprocessRun ==
  /\ pc = "subprocess"
  /\ calls' = Append(calls, pending)
  /\ \E result \in ProcessResults, out \in ChildOutputs, err \in ChildOutputs :
       outcome' =
         CASE \E i \in 1..Len(pending.cmd) : pending.cmd[i].t # "str" ->
                Uncaught("TypeError", "subprocess")
           [] OTHER ->
         CASE result = "nonzero" ->
                [status |-> "error", kind |-> "Wan2GenerationError",
                 detail |-> "CalledProcessError",
                 http |-> HttpResponse(500,
                            PyStr(<<"Wan2 generation failed with exit code ", "1",
                                    ":\nSTDOUT:\n">> \o out
                                  \o <<"\nSTDERR:\n">> \o err))]
           [] result = "oserror" -> Uncaught("OSError", "subprocess")
           [] OTHER -> [status |-> "completed",
                        output_path |-> resolved.save_file,
                        download_url |->
                          PyStr(ApiPrefix \o <<"/outputs/">>
                                \o PathName(resolved.save_file.v)),
                        command |-> PyStr(ShlexJoin(pending.cmd)),
                        stdout |-> PyStr(Strip(out)),
                        stderr |-> PyStr(Strip(err)),
                        http |-> HttpResponse(200, None)]
  /\ pc' = "done"
  /\ UNCHANGED <<command, args, env, resolved, pending>>

Next ==
  \/ ClientInit
  \/ LaunchInstance
  \/ AddSshKey
  \/ ListInstanceTypes
  \/ ListInstances
  \/ ListFilesystems
  \/ GetInstance
  \/ TerminateInstances
  \/ ListSshKeys
  \/ DeleteSshKey
  \/ Request
  \/ Generate
  \/ SubprocessRun

Spec == Init /\ [][Next]_vars

----------------------------------------------------------------------------
(* launch-instance alone, over every small tag, filesystem and mount input *)

TagKeys == {"a", "b", "c"}
TagValues == {"1", "2"}
FsNames == {"a", "b", "c"}
ItemAlphabet == {"k", "=", "/", " "}

SeqsUpTo(set, n) == UNION {[1..m -> set] : m \in 0..n}

\* KEY=VALUE strings
TagItems == {Item(<<k, "=", v>>) : k \in TagKeys, v \in TagValues}

OptionalList(seqs) == {None} \cup {PyList(l) : l \in seqs \ {<<>>}}

\* tags from the config (KEY=VALUE strings) and from --tag
LaunchTagInputs ==
  {[args |-> [ArgsValid EXCEPT !.tag = cli],
    env |-> [EnvBase EXCEPT !.document =
                              Document([CfgBase EXCEPT !["tags"] = cfg])]] :
     cli \in OptionalList(SeqsUpTo(TagItems, MaxTags)),
     cfg \in {Absent} \cup {PyList(l) : l \in SeqsUpTo(TagItems, MaxTags)}}

\* filesystem names from the config and from --filesystem
LaunchFilesystemInputs ==
  {[args |-> [ArgsValid EXCEPT !.filesystems = cli],
    env |-> [EnvBase EXCEPT !.document =
               Document([CfgBase EXCEPT !["filesystem_names"] = cfg])]] :
     cli \in OptionalList(SeqsUpTo({S(n) : n \in FsNames}, MaxNames)),
     cfg \in {Absent} \cup {S(n) : n \in FsNames}
               \cup {PyList(l) : l \in SeqsUpTo({S(n) : n \in FsNames}, MaxNames)}}

ItemStrings ==
  SeqsUpTo(ItemAlphabet, MaxItemLen)
    \cup {<<"K", "=", "V", "=", "X">>, <<"fs1", "=", "data">>}

\* one --tag or one --filesystem-mount string
LaunchItemInputs ==
  {[args |-> [ArgsValid EXCEPT !.tag = PyList(<<Item(i)>>)], env |-> EnvBase] :
     i \in ItemStrings}
  \cup
  {[args |-> [ArgsValid EXCEPT !.filesystem_mounts = PyList(<<Item(i)>>)],
    env |-> EnvBase] : i \in ItemStrings}

\* what a list of the config may hold
ListElements == {S("fw1"), S("fw2"), None, PyInt(5), PyDict(<<>>)}

\* a list-valued field of the config, of any shape
LaunchListInputs ==
  {[args |-> ArgsValid,
    env |-> [EnvBase EXCEPT !.document =
               Document([CfgBase EXCEPT !["firewall_rulesets"] = cfg])]] :
     cfg \in {Absent, None, S("fw1"), PyInt(5), PyBool(TRUE), PyDict(<<>>)}
               \cup {PyList(l) : l \in SeqsUpTo(ListElements, MaxNames)}}

InitLaunch ==
  /\ pc = "start"
  /\ command = "launch-instance"
  /\ \E in \in LaunchTagInputs \cup LaunchFilesystemInputs \cup LaunchItemInputs
               \cup LaunchListInputs :
       /\ args = in.args
       /\ env = in.env
  /\ resolved = None
  /\ pending = None
  /\ calls = <<>>
  /\ outcome = None

NextLaunch ==
  \/ LaunchInstance
  \/ Request

SpecLaunch == InitLaunch /\ [][NextLaunch]_vars

----------------------------------------------------------------------------
(* Properties *)

LaunchPath == "/api/v1/instance-operations/launch"

\* the launch request of this invocation has been built
LaunchBuilt == command = "launch-instance" /\ pc \in {"request", "done"} /\ pending # None

\* the generation command of this invocation has been built
CommandBuilt == command = "generate" /\ pc \in {"subprocess", "done"}

\* the file-config layer of a launch whose config loaded
ConfigLayer ==
  LET loaded == IF Truthy(args.config) THEN _load_launch_config(args.config.v, env)
                ELSE Ok([data |-> PyDict(<<>>), config_dir |-> None])
      data == loaded.val.data
  IN  IF loaded.ok /\ GetDefault(data.v, "launch", data).t = "dict"
      THEN GetDefault(data.v, "launch", data).v
      ELSE <<>>

ConfigLoaded ==
  LET loaded == IF Truthy(args.config) THEN _load_launch_config(args.config.v, env)
                ELSE Ok([data |-> PyDict(<<>>), config_dir |-> None])
  IN  loaded.ok /\ GetDefault(loaded.val.data.v, "launch", loaded.val.data).t = "dict"

\* the token that follows flag in the optional part of the command
FlagValue(cmd, flag) ==
  LET i == CHOOSE j \in 11..Len(cmd) :
             cmd[j] = Flag(flag) /\ \A m \in 11..(j - 1) : cmd[m] # Flag(flag)
  IN  cmd[i + 1]

HasFlag(cmd, flag) == \E j \in 11..Len(cmd) : cmd[j] = Flag(flag)

\* C1: a scalar option given by the override layer (a launch flag, a field of
\* the generation request) is the value placed in the launch request body or
\* in the generation command, whatever the file config and the defaults say.
C1_OverrideWins ==
  /\ LaunchBuilt =>
       /\ Truthy(args.region) => pending.payload.region_name = args.region
       /\ Truthy(args.instance_type) =>
            pending.payload.instance_type_name = args.instance_type
       /\ Truthy(args.name) =>
            "name" \in DOMAIN pending.payload /\ pending.payload.name = args.name
       /\ Truthy(args.hostname) =>
            /\ "hostname" \in DOMAIN pending.payload
            /\ pending.payload.hostname = args.hostname
  /\ CommandBuilt =>
       /\ Truthy(args.size) =>
            HasFlag(pending.cmd, "--size")
              /\ FlagValue(pending.cmd, "--size") = args.size
       /\ Truthy(args.num_frames) =>
            /\ HasFlag(pending.cmd, "--frame_num")
            /\ FlagValue(pending.cmd, "--frame_num") = PyStr(StrOf(args.num_frames))
       /\ args.seed # None =>
            /\ HasFlag(pending.cmd, "--base_seed")
            /\ FlagValue(pending.cmd, "--base_seed") = PyStr(StrOf(args.seed))

\* a launch was sent whose flags and file config disagree on every scalar
C1_Witness ==
  /\ command = "launch-instance"
  /\ calls # <<>>
  /\ Truthy(args.region) /\ Truthy(Get(ConfigLayer, "region"))
  /\ args.region # Get(ConfigLayer, "region")
  /\ Truthy(args.instance_type) /\ Truthy(Get(ConfigLayer, "instance_type"))
  /\ Truthy(args.name) /\ Truthy(Get(ConfigLayer, "name"))
  /\ Truthy(args.hostname) /\ Truthy(Get(ConfigLayer, "hostname"))

\* the required options after the merge of flags and file config
MergedRegion ==
  Or(Or(args.region, Get(ConfigLayer, "region")), Get(ConfigLayer, "region_name"))

MergedInstanceType ==
  Or(Or(args.instance_type, Get(ConfigLayer, "instance_type")),
     Get(ConfigLayer, "instance_type_name"))

ConfigSshKeys ==
  _ensure_list(Or(Or(Get(ConfigLayer, "ssh_keys"), Get(ConfigLayer, "ssh_key")),
                  Get(ConfigLayer, "ssh_key_names")))

\* no SSH key name comes from any layer
NoSshKey == ArgList(args.ssh_keys) = <<>> /\ ConfigSshKeys.ok /\ ConfigSshKeys.val = <<>>

MissingFields ==
  (IF ~Truthy(MergedRegion) THEN {"region"} ELSE {})
    \cup (IF ~Truthy(MergedInstanceType) THEN {"instance_type"} ELSE {})
    \cup (IF NoSshKey THEN {"ssh_keys"} ELSE {})

\* the launch handler ran with a client and a loaded config, and has ended or
\* reached its request
LaunchMerged ==
  /\ command = "launch-instance"
  /\ pc # "start"
  /\ Truthy(args.api_key)
  /\ ConfigLoaded

\* C2 as stated: a missing required option fails with MissingRequiredOption
\* naming a missing field, and whenever no SSH key name comes from any layer
\* the failure names the SSH key field.
C2_Original ==
  LaunchMerged =>
    /\ MissingFields # {} =>
         /\ pc = "done" /\ calls = <<>>
         /\ outcome.status = "error"
         /\ outcome.kind = "MissingRequiredOption"
         /\ outcome.detail \in MissingFields
    /\ NoSshKey => pc = "done" /\ outcome = Error("MissingRequiredOption", "ssh_keys")

\* C2 amended: the launch fails with MissingRequiredOption naming the first
\* missing option in the order region, instance type, SSH keys; it names the
\* SSH key field when region and instance type are present and no SSH key
\* name comes from any layer.
C2_FirstMissingNamed ==
  LaunchMerged =>
    /\ ~Truthy(MergedRegion) =>
         /\ pc = "done" /\ calls = <<>>
         /\ outcome = Error("MissingRequiredOption", "region")
    /\ Truthy(MergedRegion) /\ ~Truthy(MergedInstanceType) =>
         /\ pc = "done" /\ calls = <<>>
         /\ outcome = Error("MissingRequiredOption", "instance_type")
    /\ Truthy(MergedRegion) /\ Truthy(MergedInstanceType) /\ NoSshKey =>
         /\ pc = "done" /\ calls = <<>>
         /\ outcome = Error("MissingRequiredOption", "ssh_keys")

\* a launch with every required option but the SSH keys has failed
C2_Witness ==
  /\ LaunchMerged
  /\ Truthy(MergedRegion) /\ Truthy(MergedInstanceType) /\ NoSshKey
  /\ pc = "done"
  /\ outcome = Error("MissingRequiredOption", "ssh_keys")

ValidationErrors ==
  {"MissingRequiredOption", "InvalidFormat", "InvalidMountPath",
   "InvalidOptionType", "ConfigNotFound", "ConfigNotMapping", "FileUnreadable",
   "EmptyPublicKey", "GenerateWithPublicKey"}

DestinationErrors ==
  {"DestinationRejected", "DestinationUnreachable", "MalformedResponse",
   "Wan2GenerationError", "OSError"}

\* C3: a CLI invocation that ended with a validation error has sent no HTTP
\* request at any point.
C3_ValidationBeforeRequest ==
  (IsCli /\ pc = "done" /\ outcome.status = "error"
     /\ outcome.kind \in ValidationErrors) => calls = <<>>

\* a launch rejected for a relative mount point, an upload for an empty key
C3_Witness ==
  /\ pc = "done"
  /\ outcome.status = "error"
  /\ \/ command = "launch-instance" /\ outcome.kind = "InvalidMountPath"
     \/ command = "add-ssh-key" /\ outcome.kind = "EmptyPublicKey"

\* C4: an invocation makes at most one external call, and one whose call
\* failed has ended in failure after exactly that one call.
C4_OneCallNoRetry ==
  /\ Len(calls) <= 1
  /\ (pc = "done" /\ outcome.status = "error"
        /\ outcome.kind \in DestinationErrors) => Len(calls) = 1
  /\ calls # <<>> => pc = "done"

\* an HTTP request was rejected, a generation run exited non-zero
C4_Witness ==
  /\ pc = "done"
  /\ Len(calls) = 1
  /\ outcome.status = "error"
  /\ outcome.kind \in {"DestinationRejected", "Wan2GenerationError"}

RequiredKeys == {"region_name", "instance_type_name", "ssh_key_names"}

\* the optional keys of the launch body and the local each one is built from
OptionalValue(r) ==
  [name |-> r.name, hostname |-> r.hostname,
   file_system_names |-> PyList(r.filesystem_names),
   file_system_mounts |-> PyList(r.config_mounts \o r.cli_mounts),
   tags |-> PyList(r.merged_tags), user_data |-> r.user_data,
   image |-> r.image, firewall_rulesets |-> PyList(r.firewall_rulesets)]

\* the optional keys whose value is a list
ListKeys == {"file_system_names", "file_system_mounts", "tags", "firewall_rulesets"}

\* null, empty string or empty list
EmptyValue(k, v) ==
  IF k \in ListKeys THEN v = <<>>
  ELSE v = None \/ v = PyStr(<<>>) \/ v = PyList(<<>>)

\* C7: every launch request body that is sent has the three required keys,
\* has each optional key exactly when its resolved value is non-empty, and
\* never carries a null, empty-string or empty-list value.
C7_OptionalKeysOmitted ==
  \A i \in 1..Len(calls) :
    (calls[i].kind = "http" /\ calls[i].path = LaunchPath) =>
      LET body == calls[i].payload
          optional == OptionalValue(resolved)
      IN  /\ RequiredKeys \subseteq DOMAIN body
          /\ DOMAIN body \subseteq RequiredKeys \cup DOMAIN optional
          /\ \A k \in DOMAIN optional : k \in DOMAIN body <=> Truthy(optional[k])
          /\ \A k \in DOMAIN body \ RequiredKeys : ~EmptyValue(k, body[k])

\* a launch was sent with tags and mounts but neither a name nor user data,
\* although --user-data-file named a file (a blank one)
C7_Witness ==
  /\ command = "launch-instance"
  /\ calls # <<>>
  /\ \/ /\ "tags" \in DOMAIN calls[1].payload
        /\ "file_system_mounts" \in DOMAIN calls[1].payload
        /\ "name" \notin DOMAIN calls[1].payload
     \/ /\ Truthy(args.user_data_file)
        /\ "user_data" \notin DOMAIN calls[1].payload

Opt(cond, tokens) == IF cond THEN tokens ELSE <<>>

\* C8: the generation command is the ten leading tokens followed, in this
\* order, by --frame_num <n> iff a frame count resolved, --size <size> iff
\* the resolved size is non-empty, --offload_model True iff enabled,
\* --convert_model_dtype iff enabled, --base_seed <seed> iff a seed was given
\* (0 included), and the configured extra arguments.
C8_CommandOrder ==
  CommandBuilt =>
    LET cfg == env.launch_config
        frame == IF Truthy(args.num_frames) THEN args.num_frames ELSE cfg.frame_num
        size == IF Truthy(args.size) THEN args.size ELSE cfg.size
        extra == IF cfg.additional_args = None THEN <<>> ELSE cfg.additional_args.v
    IN  pending.cmd =
          <<PythonExecutable, GenerateScript, Flag("--task"), cfg.task,
            Flag("--ckpt_dir"), ModelRoot, Flag("--prompt"), args.prompt,
            Flag("--save_file"), resolved.save_file>>
          \o Opt(frame # None, <<Flag("--frame_num"), PyStr(StrOf(frame))>>)
          \o Opt(Truthy(size), <<Flag("--size"), size>>)
          \o Opt(Truthy(cfg.offload_model), <<Flag("--offload_model"), Flag("True")>>)
          \o Opt(Truthy(cfg.convert_model_dtype), <<Flag("--convert_model_dtype")>>)
          \o Opt(args.seed # None, <<Flag("--base_seed"), PyStr(StrOf(args.seed))>>)
          \o extra

\* a command was run with seed 0, no frame count, a size, both switches and
\* extra arguments
C8_Witness ==
  /\ command = "generate"
  /\ calls # <<>>
  /\ args.seed = PyInt(0)
  /\ ~HasFlag(calls[1].cmd, "--frame_num")
  /\ HasFlag(calls[1].cmd, "--size")
  /\ HasFlag(calls[1].cmd, "--offload_model")
  /\ HasFlag(calls[1].cmd, "--convert_model_dtype")
  /\ env.launch_config.additional_args # None

\* position of the first / last entry of tags that has the key
FirstWithKey(tags, key) ==
  CHOOSE i \in 1..Len(tags) :
    tags[i].key = key /\ \A m \in 1..(i - 1) : tags[m].key # key

LastWithKey(tags, key) ==
  CHOOSE i \in 1..Len(tags) :
    tags[i].key = key /\ \A m \in (i + 1)..Len(tags) : tags[m].key # key

KeysOf(tags) == {tags[i].key : i \in 1..Len(tags)}

\* C5: the merged tag list has one entry per distinct key of the file-config
\* tags C and the override tags L, each with the value of the key's last
\* occurrence in C followed by L, ordered by first occurrence in C followed
\* by L (keys of C first, then the keys only in L), and merging the override
\* tags into the result again changes nothing.
C5_TagMerge ==
  LaunchBuilt =>
    LET C == resolved.config_tags
        L == resolved.cli_tags
        M == resolved.merged_tags
        all == C \o L
    IN  /\ \A i, j \in 1..Len(M) : M[i].key = M[j].key => i = j
        /\ KeysOf(M) = KeysOf(all)
        /\ \A i \in 1..Len(M) :
             M[i].value = all[LastWithKey(all, M[i].key)].value
        /\ \A i, j \in 1..Len(M) :
             i < j => FirstWithKey(all, M[i].key) < FirstWithKey(all, M[j].key)
        /\ _merge_tags(M, L) = M
        /\ _merge_tags(C, M) = M

\* a launch was sent whose override changes the value of a config tag and
\* adds a tag of its own
C5_Witness ==
  /\ LaunchBuilt
  /\ calls # <<>>
  /\ \E i \in 1..Len(resolved.config_tags), j \in 1..Len(resolved.cli_tags) :
       /\ resolved.config_tags[i].key = resolved.cli_tags[j].key
       /\ resolved.config_tags[i].value # resolved.cli_tags[j].value
  /\ KeysOf(resolved.cli_tags) \ KeysOf(resolved.config_tags) # {}
  /\ Len(resolved.merged_tags) >= 2

\* the filesystem names of the file config, as the handler reads them
ConfigFilesystemNames ==
  _ensure_list(Or(Or(Or(Get(ConfigLayer, "filesystem_names"),
                        Get(ConfigLayer, "file_system_names")),
                     Get(ConfigLayer, "filesystem")),
                  Get(ConfigLayer, "filesystems")))

FirstAt(names, name) ==
  CHOOSE i \in 1..Len(names) :
    names[i] = name /\ \A m \in 1..(i - 1) : names[m] # name

\* C6: the resolved filesystem names are the file-config names followed by
\* the --filesystem names with every repeat after the first removed: no
\* duplicates, exactly the names of either layer, in first-seen order; file
\* [a,b] with override [b,c] gives [a,b,c].
C6_FilesystemNamesDeduped ==
  LaunchBuilt =>
    LET all == ConfigFilesystemNames.val \o ArgList(args.filesystems)
        R == resolved.filesystem_names
    IN  /\ \A i, j \in 1..Len(R) : R[i] = R[j] => i = j
        /\ {R[i] : i \in 1..Len(R)} = {all[i] : i \in 1..Len(all)}
        /\ \A i, j \in 1..Len(R) : i < j => FirstAt(all, R[i]) < FirstAt(all, R[j])
        /\ (ConfigFilesystemNames.val = <<<<"a">>, <<"b">>>>
              /\ ArgList(args.filesystems) = <<<<"b">>, <<"c">>>>)
             => R = <<<<"a">>, <<"b">>, <<"c">>>>

\* file [a,b] and override [b,c] were merged and sent
C6_Witness ==
  /\ LaunchBuilt
  /\ calls # <<>>
  /\ ConfigFilesystemNames.val = <<<<"a">>, <<"b">>>>
  /\ ArgList(args.filesystems) = <<<<"b">>, <<"c">>>>
  /\ calls[1].payload.file_system_names = <<<<"a">>, <<"b">>, <<"c">>>>

\* the launch has one --tag and no other optional option
OnlyOneTag ==
  /\ command = "launch-instance" /\ pc # "start"
  /\ env.document = Document(CfgBase)
  /\ args.filesystem_mounts = None
  /\ args.tag # None /\ Len(args.tag.v) = 1

\* the launch has one --filesystem-mount and no other optional option
OnlyOneMount ==
  /\ command = "launch-instance" /\ pc # "start"
  /\ env.document = Document(CfgBase)
  /\ args.filesystem_mounts # None /\ Len(args.filesystem_mounts.v) = 1

\* C9: a tag string with an "=" is split at its first "=": the key has no
\* "=" and key, "=", value together are the string ("K=V=X" gives "K" and
\* "V=X"); a string without "=" fails with InvalidFormat and gives no tag.
C9_SplitOnFirstEquals ==
  OnlyOneTag =>
    LET item == args.tag.v[1].v
    IN  IF Contains(item, "=")
        THEN /\ LaunchBuilt
             /\ Len(resolved.cli_tags) = 1
             /\ ~Contains(resolved.cli_tags[1].key, "=")
             /\ resolved.cli_tags[1].key \o <<"=">> \o resolved.cli_tags[1].value
                  = item
             /\ item = <<"K", "=", "V", "=", "X">> =>
                  resolved.cli_tags[1] = [key |-> <<"K">>, value |-> <<"V", "=", "X">>]
        ELSE /\ pc = "done"
             /\ outcome.status = "error" /\ outcome.kind = "InvalidFormat"
             /\ resolved = None /\ calls = <<>>

\* --tag K=V=X was parsed and the launch sent
C9_Witness ==
  /\ OnlyOneTag
  /\ calls # <<>>
  /\ args.tag.v[1].v = <<"K", "=", "V", "=", "X">>
  /\ calls[1].payload.tags = <<[key |-> <<"K">>, value |-> <<"V", "=", "X">>]>>

\* t is s without its leading and trailing whitespace
IsTrimOf(t, s) ==
  /\ t # <<>> => t[1] \notin Whitespace /\ t[Len(t)] \notin Whitespace
  /\ \E lead \in 0..Len(s) :
       /\ lead + Len(t) <= Len(s)
       /\ \A m \in 1..lead : s[m] \in Whitespace
       /\ \A m \in 1..Len(t) : s[lead + m] = t[m]
       /\ \A m \in (lead + Len(t) + 1)..Len(s) : s[m] \in Whitespace

Trimmed(s) ==
  CHOOSE t \in {SubSeq(s, x, y) : x \in 1..(Len(s) + 1), y \in 0..Len(s)} :
    IsTrimOf(t, s)

\* C10: a mount string without "=" fails with InvalidFormat; one whose text
\* after the first "=", trimmed, does not start with "/" fails with
\* InvalidMountPath ("fs1=data" does); any other yields the trimmed
\* filesystem id and the trimmed mount point.
C10_MountParsing ==
  OnlyOneMount =>
    LET item == args.filesystem_mounts.v[1].v
    IN  IF ~Contains(item, "=")
        THEN /\ pc = "done" /\ calls = <<>>
             /\ outcome.status = "error" /\ outcome.kind = "InvalidFormat"
        ELSE LET p == CHOOSE q \in 1..Len(item) :
                        item[q] = "=" /\ \A m \in 1..(q - 1) : item[m] # "="
                 before == SubSeq(item, 1, p - 1)
                 after == SubSeq(item, p + 1, Len(item))
             IN  IF Trimmed(after) # <<>> /\ Trimmed(after)[1] = "/"
                 THEN /\ LaunchBuilt
                      /\ resolved.cli_mounts =
                           <<[file_system_id |-> Trimmed(before),
                              mount_point |-> Trimmed(after)]>>
                 ELSE /\ pc = "done" /\ calls = <<>>
                      /\ outcome.status = "error"
                      /\ outcome.kind = "InvalidMountPath"

\* --filesystem-mount fs1=data was rejected
C10_Witness ==
  /\ OnlyOneMount
  /\ args.filesystem_mounts.v[1].v = <<"fs1", "=", "data">>
  /\ pc = "done"
  /\ outcome.status = "error" /\ outcome.kind = "InvalidMountPath"

SshKeyNames == {<<"ssh_keys">>, <<"ssh_key">>, <<"ssh_key_names">>}

\* the config document with its SSH key entries removed
RECURSIVE WithoutSshKeys(_)
WithoutSshKeys(doc) ==
  IF doc.t # "dict" THEN doc
  ELSE PyDict([i \in 1..Len(SelectSeq(doc.v, LAMBDA e : e.k \notin SshKeyNames)) |->
                 LET e == SelectSeq(doc.v, LAMBDA x : x.k \notin SshKeyNames)[i]
                 IN  IF e.k = <<"launch">>
                     THEN [k |-> e.k, v |-> WithoutSshKeys(e.v)]
                     ELSE e])

\* C11 as stated: the resolved SSH keys are the --ssh-key sequence when it is
\* non-empty and the file-config sequence otherwise, and with a non-empty
\* --ssh-key sequence the invocation ends as it would without any SSH key
\* value in the file config.
C11_Original ==
  (command = "launch-instance" /\ pc # "start" /\ Truthy(args.api_key)) =>
    /\ LaunchBuilt =>
         resolved.ssh_keys = IF ArgList(args.ssh_keys) # <<>>
                             THEN ArgList(args.ssh_keys) ELSE ConfigSshKeys.val
    /\ ArgList(args.ssh_keys) # <<>> =>
         LET alone == cmd_launch_instance(
                        args, [env EXCEPT !.document = WithoutSshKeys(env.document)])
         IN  IF alone.ok THEN LaunchBuilt /\ resolved = alone.val
             ELSE /\ pc = "done" /\ calls = <<>>
                  /\ outcome = Error(alone.kind, alone.detail)

\* where the config's user_data_file is looked up
ConfigUserDataFile ==
  IF StartsWith(Get(ConfigLayer, "user_data_file").v, "/")
  THEN Get(ConfigLayer, "user_data_file").v
  ELSE ConfigDir \o <<"/">> \o Get(ConfigLayer, "user_data_file").v

\* C12: in a launch that is built, the user data are the trimmed content of
\* the --user-data-file file when that flag is given; otherwise the trimmed
\* content of the config's user_data_file when the config names one;
\* otherwise the config's inline user_data string.
C12_UserDataPrecedence ==
  LaunchBuilt =>
    IF Truthy(args.user_data_file)
    THEN resolved.user_data = PyStr(Trimmed(env.files[args.user_data_file.v]))
    ELSE IF Truthy(Get(ConfigLayer, "user_data_file"))
    THEN resolved.user_data = PyStr(Trimmed(env.files[ConfigUserDataFile]))
    ELSE IF Truthy(Get(ConfigLayer, "user_data"))
    THEN resolved.user_data = PyStr(StrOf(Get(ConfigLayer, "user_data")))
    ELSE resolved.user_data = None

\* a launch was sent with the content of --user-data-file although the config
\* names a file of its own and an inline string
C12_Witness ==
  /\ LaunchBuilt
  /\ calls # <<>>
  /\ Truthy(args.user_data_file)
  /\ Truthy(Get(ConfigLayer, "user_data_file"))
  /\ Truthy(Get(ConfigLayer, "user_data"))
  /\ env.files[ConfigUserDataFile] # env.files[args.user_data_file.v]
  /\ "user_data" \in DOMAIN calls[1].payload
  /\ calls[1].payload.user_data = PyStr(<<"#cli">>)

----------------------------------------------------------------------------
(* generate alone, over every short prompt and over prompts around SlugMax *)

MaxPromptLen == 3

PromptAlphabet == {"a", " ", "/"}

\* a prompt one symbol short of the slug limit
LongPrefix == [i \in 1..(SlugMax - 1) |-> "a"]

SlugInputs ==
  {[args |-> [prompt |-> PyStr(prefix \o tail), negative_prompt |-> None,
              seed |-> None, num_frames |-> None, size |-> None],
    env |-> [generation_section |-> <<>>,
             launch_config |-> build_wan2_generator(<<>>)]] :
     prefix \in {<<>>, LongPrefix},
     tail \in SeqsUpTo(PromptAlphabet, MaxPromptLen) \ {<<>>}}

InitSlug ==
  /\ pc = "start"
  /\ command = "generate"
  /\ \E in \in SlugInputs :
       /\ args = in.args
       /\ env = in.env
  /\ resolved = None
  /\ pending = None
  /\ calls = <<>>
  /\ outcome = None

NextSlug ==
  \/ Generate
  \/ SubprocessRun

SpecSlug == InitSlug /\ [][NextSlug]_vars

----------------------------------------------------------------------------
(* Properties of the output file name *)

\* a trimmed prompt with every run of whitespace turned into one "_" and
\* every "/" turned into slashAs
RECURSIVE Collapse(_, _)
Collapse(s, slashAs) ==
  IF s = <<>> THEN <<>>
  ELSE IF Head(s) \in Whitespace
       THEN (IF Len(s) > 1 /\ s[2] \in Whitespace THEN <<>> ELSE <<"_">>)
            \o Collapse(Tail(s), slashAs)
  ELSE (IF Head(s) = "/" THEN slashAs ELSE <<Head(s)>>)
       \o Collapse(Tail(s), slashAs)

\* the slug the rule gives for the prompt of this invocation
RuleSlug(slashAs) ==
  LET whole == Collapse(Strip(args.prompt.v), slashAs)
      cut == IF Len(whole) > SlugMax THEN SubSeq(whole, 1, SlugMax) ELSE whole
  IN  IF cut = <<>> THEN <<"wan2">> ELSE cut

\* the file name of the output path: what follows the output directory
OutputName ==
  SubSeq(resolved.save_file.v, Len(OutputDir) + 2, Len(resolved.save_file.v))

\* the slug of the output path: the name without "_", suffix and extension
OutputSlug == SubSeq(OutputName, 1, Len(OutputName) - 10)

SlugSafe ==
  /\ OutputName = OutputSlug \o <<"_">> \o resolved.hex8 \o <<".mp4">>
  /\ Len(resolved.hex8) = 8
  /\ Len(OutputSlug) <= SlugMax
  /\ \A i \in 1..Len(OutputSlug) : OutputSlug[i] \notin Whitespace \cup {"/"}

\* C13 as stated: the file name is <slug>_<8 hex characters>.mp4 where the
\* slug is the prompt's words joined with "_", every "/" removed, cut to 48
\* characters, the fallback token when that is empty; no "/", no whitespace,
\* at most 48 characters.
C13_Original ==
  CommandBuilt => SlugSafe /\ OutputSlug = RuleSlug(<<>>)

\* C13 amended: as C13, except that every "/" is replaced by "_" and not
\* removed (so a prompt made of "/" only gives a slug of "_", not the
\* fallback token).
C13_SlugReplacesSlash ==
  CommandBuilt => SlugSafe /\ OutputSlug = RuleSlug(<<"_">>)

\* a prompt longer than the limit with "/" and whitespace in it got a slug
\* cut to the limit, and a run was started with that file name
C13_Witness ==
  /\ CommandBuilt
  /\ calls # <<>>
  /\ Len(args.prompt.v) > SlugMax
  /\ \E i \in 1..Len(args.prompt.v) : args.prompt.v[i] = "/"
  /\ \E i \in 1..Len(args.prompt.v) : args.prompt.v[i] \in Whitespace
  /\ Len(OutputSlug) = SlugMax
  /\ Len(Collapse(Strip(args.prompt.v), <<"_">>)) > SlugMax

----------------------------------------------------------------------------
(* Properties of the generate endpoint's answer *)

\* C14 as stated: every failure of the generation step (the script exits
\* non-zero, or the subprocess cannot be started) is answered with a 5xx
\* status whose detail carries the failure description; a successful run
\* answers with status, output path, download locator, command and the
\* captured output streams.
C14_Original ==
  (command = "generate" /\ pc = "done") =>
    IF outcome.status = "completed"
    THEN /\ outcome.output_path = resolved.save_file
         /\ outcome.download_url =
              PyStr(ApiPrefix \o <<"/outputs/">> \o OutputName)
         /\ outcome.command.t = "str" /\ outcome.command.v # <<>>
         /\ outcome.stdout.t = "str" /\ outcome.stderr.t = "str"
    ELSE /\ outcome.http.status_code \in 500..599
         /\ outcome.http.detail # None

----------------------------------------------------------------------------
(* Properties of the API error message *)

\* an API answer with an error status has ended this invocation
HttpErrorSeen ==
  /\ IsCli /\ pc = "done" /\ calls # <<>>
  /\ outcome.status = "error"
  /\ outcome.kind \notin {"DestinationUnreachable", "MalformedResponse"}

ExitPrefix == <<"API request failed (", ErrorStatus, "): ">>

\* C15 as stated: for every body of an error answer the invocation ends with
\* one descriptive error string: a well-formed {error: {code, message}}
\* envelope gives a string with the code and the message; a body that is
\* empty, not JSON, JSON that is not an object, or an object whose "error" is
\* not an object gives the raw text or a fixed placeholder; the mapping never
\* raises an error of its own.
C15_Original ==
  HttpErrorSeen =>
    /\ outcome.kind = "DestinationRejected"
    /\ outcome.body = EnvelopeFull =>
         outcome.message = ExitPrefix \o <<"c1", ": ", "m1">>
    /\ outcome.body \in {<<>>, <<" ">>, <<" ", "Bad Gateway", " ">>, <<"[]">>,
                         <<"null">>, <<"5">>, EnvelopeErrorText,
                         EnvelopeErrorNull} =>
         \/ outcome.message = ExitPrefix \o Strip(outcome.body)
              /\ Strip(outcome.body) # <<>>
         \/ outcome.message \in {ExitPrefix \o <<"<no error message returned>">>,
                                 ExitPrefix \o <<"<unparseable error response>">>,
                                 ExitPrefix \o <<"<no error message>">>}

----------------------------------------------------------------------------
(* Properties of the list normalizer, seen through firewall_rulesets *)

\* the config's firewall_rulesets value; None when the key is absent
FirewallValue == Get(ConfigLayer, "firewall_rulesets")

\* the entries of a list that make it fail
BadEntries(list, nullFails) ==
  {i \in 1..Len(list) :
     list[i].t # "str" /\ (list[i].t = "none" => nullFails)}

\* the strings of a list, in order
StringsOf(list) ==
  LET kept == SelectSeq(list, LAMBDA e : e.t = "str")
  IN  [i \in 1..Len(kept) |-> kept[i].v]

\* the handler stopped on the type of the list value
ListRejected(typeName) ==
  /\ pc = "done" /\ calls = <<>>
  /\ outcome.status = "error"
  /\ outcome.kind = "InvalidOptionType" => outcome.detail = typeName
  /\ args = ArgsValid => outcome.kind = "InvalidOptionType"

\* what the claim says of the normalizer, with null entries failing or not
ListNormalized(nullFails) ==
  LaunchMerged =>
    CASE FirewallValue.t = "none" ->
           LaunchBuilt => resolved.firewall_rulesets = <<>>
      [] FirewallValue.t = "str" ->
           LaunchBuilt => resolved.firewall_rulesets = <<FirewallValue.v>>
      [] FirewallValue.t = "list" ->
           LET bad == BadEntries(FirewallValue.v, nullFails)
           IN  IF bad = {}
               THEN LaunchBuilt =>
                      resolved.firewall_rulesets = StringsOf(FirewallValue.v)
               ELSE ListRejected(
                      TypeName(FirewallValue.v[CHOOSE i \in bad :
                                                 \A j \in bad : i <= j]))
      [] OTHER -> ListRejected(TypeName(FirewallValue))

\* C16 as stated: the list normalizer maps an absent value to the empty
\* sequence, a string to a one-element sequence, a sequence of strings to
\* the same elements in order; a sequence with any non-string element, a
\* null element included, fails with InvalidOptionType naming the type; any
\* other type fails with InvalidOptionType.
C16_Original == ListNormalized(TRUE)

\* C16 amended: as C16, except that null elements of a sequence are dropped
\* and do not fail; a sequence fails on its first element that is neither a
\* string nor null.
C16_NullEntriesSkipped == ListNormalized(FALSE)

\* a launch was sent whose firewall rulesets come from a list with a null
\* entry and one string
C16_Witness ==
  /\ LaunchMerged
  /\ LaunchBuilt
  /\ FirewallValue.t = "list"
  /\ \E i \in 1..Len(FirewallValue.v) : FirewallValue.v[i].t = "none"
  /\ resolved.firewall_rulesets = <<<<"fw1">>>>
  /\ calls # <<>>
  /\ calls[1].payload.firewall_rulesets = <<<<"fw1">>>>

----------------------------------------------------------------------------
(* Properties of the config load *)

\* C17 as stated: the load of a configuration file succeeds only if the
\* parsed document is a mapping; a list, a scalar or a boolean, the empty or
\* falsy ones included, makes the load fail. Stated here for the launch
\* config and for documents other than the empty one.
C17_Original ==
  (/\ command = "launch-instance" /\ pc # "start"
   /\ Truthy(args.api_key) /\ Truthy(args.config) /\ env.config_exists
   /\ env.document.t \notin {"dict", "none"}) =>
    /\ pc = "done"
    /\ calls = <<>>
    /\ outcome.status = "error"
    /\ outcome.kind = "ConfigNotMapping"

----------------------------------------------------------------------------
(* Properties of the generation defaults *)

\* the generation section holds key with a null or empty value
NullOrEmpty(key) ==
  /\ DictHas(env.generation_section, <<key>>)
  /\ ~Truthy(DictGet(env.generation_section, <<key>>))
  /\ DictGet(env.generation_section, <<key>>).t \in {"none", "str"}

\* C18 as stated: for task, size, offloadModel and convertDtype, when no
\* override is given and the file-config value is present but null or empty,
\* the value used is the built-in default (t2v-A14B, 1280*720, true, true),
\* as when the key is absent.
C18_Original ==
  CommandBuilt =>
    /\ NullOrEmpty("task") => pending.cmd[4] = S("t2v-A14B")
    /\ (NullOrEmpty("size") /\ ~Truthy(args.size)) =>
         /\ HasFlag(pending.cmd, "--size")
         /\ FlagValue(pending.cmd, "--size") = S("1280*720")
    /\ NullOrEmpty("offload_model") => HasFlag(pending.cmd, "--offload_model")
    /\ NullOrEmpty("convert_model_dtype") =>
         HasFlag(pending.cmd, "--convert_model_dtype")

----------------------------------------------------------------------------
(* Properties of the mounts of a launch request *)

\* the config's mounts value
ConfigMountsValue ==
  Or(Get(ConfigLayer, "filesystem_mounts"), Get(ConfigLayer, "file_system_mounts"))

\* how many entries the config's mounts value holds
ConfigMountCount ==
  IF ConfigMountsValue.t = "none" THEN 0
  ELSE IF ConfigMountsValue.t = "list" THEN Len(ConfigMountsValue.v)
  ELSE 1

\* the mounts of the request body that was sent; none when the key is left out
SentMounts ==
  IF "file_system_mounts" \in DOMAIN calls[1].payload
  THEN calls[1].payload.file_system_mounts
  ELSE <<>>

\* C19 as stated: in every launch request body that is sent,
\* file_system_mounts is the normalized config mounts followed by the
\* normalized CLI mounts, nothing removed or reordered, and every entry,
\* from a FS_ID=/path string or from a mapping, has a mount point that
\* starts with "/".
C19_Original ==
  (command = "launch-instance" /\ calls # <<>>) =>
    /\ SentMounts = resolved.config_mounts \o resolved.cli_mounts
    /\ Len(resolved.config_mounts) = ConfigMountCount
    /\ Len(resolved.cli_mounts) = Len(ArgList(args.filesystem_mounts))
    /\ \A i \in 1..Len(SentMounts) :
         /\ SentMounts[i].mount_point # <<>>
         /\ SentMounts[i].mount_point[1] = "/"

=============================================================================
